---- MODULE Spec2Model ----
(***************************************************************************)
(* Model of app_streamlit_fema_water.py: the filter builder, the paginated *)
(* fetch loop with the run block that drives it, the keyword classifier    *)
(* and the grouped summary.                                                *)
(*                                                                         *)
(* Python strings are sequences of one-character strings, an Optional      *)
(* value is None or Some(x), and the rows of the remote dataset are        *)
(* numbered by their position in it.                                       *)
(***************************************************************************)
EXTENDS Integers, Sequences, FiniteSets, TLC

VARIABLES
    pc,            \* position of the script: "idle", "fetching", "done"
    srcN,          \* remote source: number of rows matching the filter now
    metaMode,      \* remote source: how the payload reports metadata.count
    fixedCount,    \* remote source: the count it reports when metaMode = "fixed"
    shape,         \* remote source: order of the payload's top-level fields
    drifted,       \* history: the source changed since the run began
    skip,          \* fetch_all: skip
    records,       \* fetch_all: records
    total_count,   \* fetch_all: total_count (None or an integer)
    last_url,      \* fetch_all: last_url (its $skip parameter; None for "")
    requests,      \* history: the $skip of every session.get issued, in order
    statuses,      \* history: the status code of every response received
    served,        \* history: what each 200 response held: [skip, n, list]
    progressLog,   \* history: every value handed to progress.progress
    outcome,       \* run block: "none", "ok", "error"
    errStatus,     \* run block: status code carried by the error (None if none)
    df,            \* run block: the rows bound to df (None until fetch_all returns)
    ret_count,     \* run block: total_count as returned by fetch_all
    outputs,       \* run block: the UI elements emitted, in order
    args,          \* pure-function specifications: the actual parameters
    result         \* pure-function specifications: the value returned

vars == <<pc, srcN, metaMode, fixedCount, shape, drifted, skip, records,
          total_count, last_url, requests, statuses, served, progressLog,
          outcome, errStatus, df, ret_count, outputs, args, result>>

fetchVars == <<srcN, metaMode, fixedCount, shape, drifted, skip, records,
               total_count, last_url, requests, statuses, served, progressLog,
               outcome, errStatus, df, ret_count, outputs>>

----------------------------------------------------------------------------
(* Python values *)

None == [none |-> TRUE]

Some(x) == [none |-> FALSE, val |-> x]

IsNone(x) == x.none

Max(a, b) == IF a >= b THEN a ELSE b

Min(a, b) == IF a <= b THEN a ELSE b

RECURSIVE Flatten(_)
Flatten(ss) == IF ss = <<>> THEN <<>> ELSE Head(ss) \o Flatten(Tail(ss))

----------------------------------------------------------------------------
(* fetch_all and the run block *)

\* Bound: the remote source holds at most MaxPages full pages.
MaxPages == 3

top == 1000

Remainders == {0, 1, 400, top - 1}

SrcSizes == {p * top + r : p \in 0..(MaxPages - 1), r \in Remainders} \cup {MaxPages * top}

CountValues == {-1, 0, 1, 400, top, 2 * top + 400}

MetaModes == {"honest", "fixed", "nometa", "nocount", "null"}

Shapes == {"meta_first", "data_first"}

Statuses == {200, 204, 404, 500, 503}

\* The rows the source holds at positions skip+1 .. min(skip+top, n).
Slice(n, sk) == [i \in 1..Max(0, Min(top, n - sk)) |-> sk + i]

\* The metadata field of a payload, as the source writes it.
MetaField(mode, n, fixed) ==
    CASE mode = "nometa"  -> <<>>
      [] mode = "nocount" -> <<[k |-> "metadata", t |-> "dict", keys |-> <<>>, count |-> None]>>
      [] mode = "null"    -> <<[k |-> "metadata", t |-> "dict", keys |-> <<"count">>, count |-> None]>>
      [] mode = "honest"  -> <<[k |-> "metadata", t |-> "dict", keys |-> <<"count">>, count |-> Some(n)]>>
      [] mode = "fixed"   -> <<[k |-> "metadata", t |-> "dict", keys |-> <<"count">>, count |-> Some(fixed)]>>

DataField(rows) == <<[k |-> "PublicAssistanceGrantAwardActivities", t |-> "list", items |-> rows]>>

\* A JSON object is the sequence of its top-level fields, in document order.
ListPayload(sh, mode, n, fixed, sk) ==
    IF sh = "meta_first"
    THEN MetaField(mode, n, fixed) \o DataField(Slice(n, sk))
    ELSE DataField(Slice(n, sk)) \o MetaField(mode, n, fixed)

NoListPayload(mode, n, fixed) ==
    MetaField(mode, n, fixed) \o <<[k |-> "message", t |-> "str"]>>

\* Variant of StatusOk that lets every status through.
StatusOkAny(status) == TRUE

\* if resp.status_code != 200: raise
StatusOk(status) == status = 200

\* Variant of DataKey without the isinstance test: the first field wins.
DataKeyFirstField(payload) ==
    IF payload = <<>> THEN None ELSE Some(1)

\* for k, v in payload.items(): if isinstance(v, list): data_key = k; break
DataKey(payload) ==
    LET hits == {i \in 1..Len(payload) : payload[i].t = "list"}
    IN  IF hits = {} THEN None
        ELSE Some(CHOOSE i \in hits : \A j \in hits : i <= j)

\* Iterating a Python value: a list yields its items, a dict its keys.
Items(field) ==
    CASE field.t = "list" -> field.items
      [] field.t = "dict" -> field.keys
      [] OTHER            -> <<>>

\* rows = payload.get(data_key, [])
PageRows(payload) ==
    LET dk == DataKey(payload)
    IN  IF IsNone(dk) THEN <<>> ELSE Items(payload[dk.val])

\* md = payload.get("metadata", {}); md.get("count", 0)
ReadCount(payload) ==
    LET hits == {i \in 1..Len(payload) : payload[i].k = "metadata"}
    IN  IF hits = {} THEN Some(0)
        ELSE LET md == payload[CHOOSE i \in hits : TRUE]
             IN  IF "count" \in {md.keys[j] : j \in 1..Len(md.keys)}
                 THEN md.count
                 ELSE Some(0)

\* Python truthiness of total_count: None and 0 are false.
Truthy(tc) == ~IsNone(tc) /\ tc.val # 0

\* Variant of Fraction without the min(1.0, ...) clamp.
FractionUnclamped(n, tc) == <<n, Max(tc, 1)>>

\* min(1.0, len(records)/max(total_count,1)), as the fraction <<num, den>>

Fraction(n, tc) ==
    IF n >= Max(tc, 1) THEN <<1, 1>> ELSE <<n, Max(tc, 1)>>

\* Variant of NextSkip that re-reads the last row of the page.
NextSkipShort(sk) == sk + top - 1

\* skip += top

NextSkip(sk) == sk + top

\* Variant of LastPage that also stops on a full page.
LastPageInclusive(rows) == Len(rows) <= top

\* if len(rows) < top: break

LastPage(rows) == Len(rows) < top

\* if not rows: break
Exhausted(rows) == rows = <<>>

\* The rows a served page held, rebuilt from its offset and size.
ServedRows(p) == IF p.list THEN [j \in 1..p.n |-> p.sk + j] ELSE <<>>

\* Everything after the loop when fetch_all returns: lines 91-92 of fetch_all,
\* then progress.progress(1.0), the captions and the result sections of the
\* run block (the no-results warning stops the script before them).
Finish(recs, tc, plog) ==
    /\ df' = Some(recs)
    /\ ret_count' = IF Truthy(tc) THEN tc.val ELSE 0
    /\ progressLog' = Append(plog, <<1, 1>>)
    /\ outcome' = "ok"
    /\ outputs' = outputs \o <<"caption:count", "code:last_url">> \o
                  (IF recs = <<>>
                   THEN <<"warning:no_results">>
                   ELSE <<"detailed", "download:detailed", "summary",
                          "download:summary", "toplist">>)
    /\ pc' = "done"

\* One iteration of the while loop on a response whose status passed the check.
LoopBody(payload) ==
    LET rows == PageRows(payload)
        tc1  == IF IsNone(total_count) THEN ReadCount(payload) ELSE total_count
        recs == records \o rows
        plog == IF Truthy(tc1)
                THEN Append(progressLog, Fraction(Len(recs), tc1.val))
                ELSE progressLog
    IN  /\ total_count' = tc1
        /\ IF Exhausted(rows)
           THEN /\ UNCHANGED <<records, skip>>
                /\ Finish(records, tc1, progressLog)
           ELSE /\ records' = recs
                /\ skip' = NextSkip(skip)
                /\ IF LastPage(rows)
                   THEN Finish(recs, tc1, plog)
                   ELSE /\ progressLog' = plog
                        /\ UNCHANGED <<pc, outcome, df, ret_count, outputs>>

\* session.get(url, timeout=60) issued with the current skip.
SendRequest ==
    /\ requests' = Append(requests, skip)
    /\ last_url' = Some(skip)

\* The except branch of the run block: st.error, st.stop.
Abort(status) ==
    /\ outcome' = "error"
    /\ errStatus' = status
    /\ outputs' = Append(outputs, "error")
    /\ pc' = "done"
    /\ UNCHANGED <<skip, records, total_count, progressLog, df, ret_count>>

\* The run button: the filter caption and st.progress(0.0), then fetch_all's
\* local state (lines 50-64).
RunClick ==
    /\ pc = "idle"
    /\ pc' = "fetching"
    /\ outputs' = <<"caption:filter">>
    /\ progressLog' = <<<<0, 1>>>>
    /\ records' = <<>>
    /\ skip' = 0
    /\ total_count' = None
    /\ last_url' = None
    /\ UNCHANGED <<srcN, metaMode, fixedCount, shape, drifted, requests, statuses,
                   served, outcome, errStatus, df, ret_count, args, result>>

\* A page whose payload holds the list of rows at the requested offset.
PageList ==
    /\ pc = "fetching"
    /\ \E status \in Statuses :
         /\ StatusOk(status)
         /\ SendRequest
         /\ statuses' = Append(statuses, status)
         /\ served' = Append(served, [sk |-> skip, n |-> Len(Slice(srcN, skip)), list |-> TRUE])
         /\ LoopBody(ListPayload(shape, metaMode, srcN, fixedCount, skip))
    /\ UNCHANGED <<srcN, metaMode, fixedCount, shape, drifted, errStatus, args, result>>

\* A page whose payload has no list-valued top-level field.
PageNoList ==
    /\ pc = "fetching"
    /\ \E status \in Statuses :
         /\ StatusOk(status)
         /\ SendRequest
         /\ statuses' = Append(statuses, status)
         /\ served' = Append(served, [sk |-> skip, n |-> 0, list |-> FALSE])
         /\ LoopBody(NoListPayload(metaMode, srcN, fixedCount))
    /\ UNCHANGED <<srcN, metaMode, fixedCount, shape, drifted, errStatus, args, result>>

\* if resp.status_code != 200: raise RuntimeError(f"HTTP {resp.status_code}: ...")
PageHttpError ==
    /\ pc = "fetching"
    /\ \E status \in Statuses :
         /\ ~StatusOk(status)
         /\ SendRequest
         /\ statuses' = Append(statuses, status)
         /\ Abort(Some(status))
    /\ UNCHANGED <<srcN, metaMode, fixedCount, shape, drifted, served, args, result>>

\* session.get raises (timeout, connection failure): no response, no status.
PageTransportError ==
    /\ pc = "fetching"
    /\ SendRequest
    /\ Abort(None)
    /\ UNCHANGED <<srcN, metaMode, fixedCount, shape, drifted, statuses, served, args, result>>

\* The remote dataset gains or loses matching rows between two requests.
Drift ==
    /\ pc = "fetching"
    /\ requests # <<>>
    /\ \E n \in SrcSizes : n # srcN /\ srcN' = n
    /\ drifted' = TRUE
    /\ UNCHANGED <<pc, metaMode, fixedCount, shape, skip, records, total_count,
                   last_url, requests, statuses, served, progressLog, outcome,
                   errStatus, df, ret_count, outputs, args, result>>

Init ==
    /\ pc = "idle"
    /\ srcN \in SrcSizes
    /\ metaMode \in MetaModes
    /\ fixedCount \in (IF metaMode = "fixed" THEN CountValues ELSE {0})
    /\ shape \in Shapes
    /\ drifted = FALSE
    /\ skip = 0
    /\ records = <<>>
    /\ total_count = None
    /\ last_url = None
    /\ requests = <<>>
    /\ statuses = <<>>
    /\ served = <<>>
    /\ progressLog = <<>>
    /\ outcome = "none"
    /\ errStatus = None
    /\ df = None
    /\ ret_count = 0
    /\ outputs = <<>>
    /\ args = <<>>
    /\ result = <<>>

Next ==
    \/ RunClick
    \/ PageList
    \/ PageNoList
    \/ PageHttpError
    \/ PageTransportError
    \/ Drift

Spec == Init /\ [][Next]_vars

----------------------------------------------------------------------------
(* Properties of fetch_all and the run block *)

PageSizes == [i \in 1..Len(served) |-> served[i].n]

RECURSIVE Sum(_)
Sum(ns) == IF ns = <<>> THEN 0 ELSE Head(ns) + Sum(Tail(ns))

ReceivedRows == Flatten([i \in 1..Len(served) |-> ServedRows(served[i])])

AllListPages == \A i \in 1..Len(served) : served[i].list

AllSucceeded ==
    /\ Len(statuses) = Len(requests)
    /\ \A i \in 1..Len(statuses) : statuses[i] = 200

Returned == pc = "done" /\ outcome = "ok"

\* C1: over successful list pages, requests go out one after another with
\* offsets 0, top, 2*top, ...; the loop goes on exactly while every page was
\* full, stops right after the first page shorter than top (an empty one
\* included) and returns without error the in-order concatenation of the rows
\* received; pages of 1000, 1000, 400 rows give 3 requests and 2400 rows, an
\* empty first page gives 1 request and no rows.
C1_SequentialFetch ==
    /\ \A i \in 1..Len(requests) : requests[i] = (i - 1) * top
    /\ Len(served) <= Len(requests)
    /\ (AllListPages /\ AllSucceeded) =>
         /\ Len(served) = Len(requests)
         /\ \A i \in 1..(Len(served) - 1) : served[i].n >= top
         /\ (pc # "idle") =>
              ((pc = "fetching") <=>
                 (requests = <<>> \/ served[Len(served)].n >= top))
         /\ (requests # <<>> /\ served[Len(served)].n < top) => Returned
         /\ Returned =>
              /\ ~IsNone(df)
              /\ Len(df.val) = Sum(PageSizes)
              /\ df.val = ReceivedRows
         /\ (PageSizes = <<1000, 1000, 400>>) =>
              Returned /\ Len(requests) = 3 /\ Len(df.val) = 2400
         /\ (PageSizes = <<0>>) =>
              Returned /\ Len(requests) = 1 /\ df.val = <<>>

C1_Witness ==
    Returned /\ AllListPages /\ PageSizes = <<1000, 1000, 400>>

BadStatus == \E i \in 1..Len(statuses) : statuses[i] # 200

NoDuplicates(seq) == \A i, j \in 1..Len(seq) : i # j => seq[i] # seq[j]

Emitted(label) == \E i \in 1..Len(outputs) : outputs[i] = label

\* C2: once a page request gets a non-success status, the run has ended in an
\* error that carries that status, the failed request was the last one issued
\* and no offset was requested twice, and no accumulated row reached the
\* caller: df is unbound and neither the detailed nor the summary section has
\* been emitted.
C2_HttpErrorAborts ==
    BadStatus =>
        /\ pc = "done"
        /\ outcome = "error"
        /\ statuses[Len(statuses)] # 200
        /\ \A i \in 1..(Len(statuses) - 1) : statuses[i] = 200
        /\ errStatus = Some(statuses[Len(statuses)])
        /\ Len(requests) = Len(statuses)
        /\ NoDuplicates(requests)
        /\ IsNone(df)
        /\ ~Emitted("detailed") /\ ~Emitted("summary")
        /\ ~Emitted("download:detailed") /\ ~Emitted("download:summary")

C2_Witness ==
    /\ BadStatus
    /\ outcome = "error"
    /\ Len(requests) >= 2
    /\ Len(records) >= top

NoListSeen == \E i \in 1..Len(served) : ~served[i].list

StableHonestSource ==
    /\ ~drifted
    /\ metaMode = "honest"
    /\ AllListPages

\* C4: against a source that does not change during the fetch and reports
\* its true count, a normal return delivers every source row once, in source
\* order, and the returned total-count is the number of rows.
C4_CompleteOnStableSource ==
    (Returned /\ StableHonestSource) =>
        /\ Len(df.val) = srcN
        /\ df.val = [i \in 1..srcN |-> i]
        /\ ret_count = srcN

C4_Witness ==
    /\ Returned
    /\ StableHonestSource
    /\ srcN = 2 * top
    /\ Len(requests) = 3

\* Fractions <<a, b>> with b > 0, compared by cross-multiplication.
FracLeq(x, y) == x[1] * y[2] <= y[1] * x[2]

CountNotObtained == metaMode \in {"nometa", "nocount", "null"}

\* C5: every value handed to the progress observer lies in [0, 1], the values
\* never decrease in the order they are reported, and when the payloads carry
\* no count the loop reports nothing (only the initial 0 and the final 1 are
\* seen).
C5_ProgressMonotone ==
    /\ \A i \in 1..Len(progressLog) :
         /\ progressLog[i][2] > 0
         /\ 0 <= progressLog[i][1]
         /\ progressLog[i][1] <= progressLog[i][2]
    /\ \A i \in 1..(Len(progressLog) - 1) :
         FracLeq(progressLog[i], progressLog[i + 1])
    /\ CountNotObtained =>
         /\ Len(progressLog) <= 2
         /\ \A i \in 1..Len(progressLog) :
              progressLog[i] = (IF i = 1 THEN <<0, 1>> ELSE <<1, 1>>)
         /\ Len(progressLog) = 2 => Returned

C5_Witness ==
    /\ Returned
    /\ Len(progressLog) >= 5
    /\ \E i \in 1..Len(progressLog) :
         0 < progressLog[i][1] /\ progressLog[i][1] < progressLog[i][2]

----------------------------------------------------------------------------
(* Python strings: sequences of one-character strings *)

LowerCase == <<"a", "b", "c", "d", "e", "f", "g", "h", "i", "j", "k", "l", "m",
               "n", "o", "p", "q", "r", "s", "t", "u", "v", "w", "x", "y", "z">>

UpperCase == <<"A", "B", "C", "D", "E", "F", "G", "H", "I", "J", "K", "L", "M",
               "N", "O", "P", "Q", "R", "S", "T", "U", "V", "W", "X", "Y", "Z">>

Digits == <<"0", "1", "2", "3", "4", "5", "6", "7", "8", "9">>

Whitespace == {" "}

\* Code-point order of the characters the model uses.
CodePoints == <<" ", "&", ",", "-">> \o Digits \o UpperCase \o LowerCase

IndexOf(seq, c) == CHOOSE i \in 1..Len(seq) : seq[i] = c

Occurs(seq, c) == \E i \in 1..Len(seq) : seq[i] = c

Ord(c) == IndexOf(CodePoints, c)

UpperChar(c) == IF Occurs(LowerCase, c) THEN UpperCase[IndexOf(LowerCase, c)] ELSE c

LowerChar(c) == IF Occurs(UpperCase, c) THEN LowerCase[IndexOf(UpperCase, c)] ELSE c

\* str.upper and str.lower
Upper(str) == [i \in 1..Len(str) |-> UpperChar(str[i])]

Lower(str) == [i \in 1..Len(str) |-> LowerChar(str[i])]

RECURSIVE LStrip(_)
LStrip(str) ==
    IF str # <<>> /\ Head(str) \in Whitespace THEN LStrip(Tail(str)) ELSE str

RECURSIVE RStrip(_)
RStrip(str) ==
    IF str # <<>> /\ str[Len(str)] \in Whitespace
    THEN RStrip(SubSeq(str, 1, Len(str) - 1))
    ELSE str

\* str.strip
Strip(str) == RStrip(LStrip(str))

\* sep.join(parts), for strings and for texts alike
RECURSIVE Join(_, _)
Join(sep, parts) ==
    IF parts = <<>> THEN <<>>
    ELSE IF Len(parts) = 1 THEN parts[1]
    ELSE parts[1] \o sep \o Join(sep, Tail(parts))

\* str.split(sep) for a one-character separator: always at least one piece
RECURSIVE Split(_, _)
Split(str, sep) ==
    IF ~Occurs(str, sep) THEN <<str>>
    ELSE LET i == CHOOSE k \in 1..Len(str) :
                       str[k] = sep /\ \A j \in 1..(k - 1) : str[j] # sep
         IN  <<SubSeq(str, 1, i - 1)>> \o Split(SubSeq(str, i + 1, Len(str)), sep)

\* [f(x) for x in xs if keep(x)] is written with SelectSeq and a map.
Map(f(_), xs) == [i \in 1..Len(xs) |-> f(xs[i])]

\* x in s for strings: s has a slice equal to x
Contains(x, str) ==
    \E i \in 1..(Len(str) - Len(x) + 1) : SubSeq(str, i, i + Len(x) - 1) = x

----------------------------------------------------------------------------
(* build_filter.  The expression is a text: a sequence of pieces, each a    *)
(* literal of the source or one character of an argument.                   *)

LitContains == "(substringof('Fire',incidentType) or substringof('Wildfire',incidentType))"

LitExact == "incidentType eq 'Fire'"

LitCategory == "damageCategoryCode eq '"

LitState == "stateAbbreviation eq '"

LitStart == "dateObligated ge '"

LitEnd == "dateObligated le '"

\* Variant of NonBlank that keeps every entry.
NonBlankAlways(str) == TRUE

\* the comprehension filters `if c.strip()` and `if s.strip()`
NonBlank(str) == Strip(str) # <<>>

CategoryTerm(c) == <<LitCategory>> \o Upper(Strip(c)) \o <<"'">>

StateTerm(st) == <<LitState>> \o Upper(Strip(st)) \o <<"'">>

build_filter(states, start, end, categories, incident_contains) ==
    LET p1 == IF incident_contains THEN <<<<LitContains>>>> ELSE <<<<LitExact>>>>
        cat_or == Join(<<" or ">>, Map(CategoryTerm, SelectSeq(categories, NonBlank)))
        p2 == IF categories # <<>> /\ cat_or # <<>>
              THEN <<<<"(">> \o cat_or \o <<")">>>>
              ELSE <<>>
        state_filters == IF IsNone(states) THEN <<>>
                         ELSE Map(StateTerm, SelectSeq(states.val, NonBlank))
        p3 == IF ~IsNone(states) /\ states.val # <<>> /\ state_filters # <<>>
              THEN <<<<"(">> \o Join(<<" or ">>, state_filters) \o <<")">>>>
              ELSE <<>>
        p4 == IF ~IsNone(start) /\ start.val # <<>>
              THEN <<<<LitStart>> \o start.val \o <<"'">>>>
              ELSE <<>>
        p5 == IF ~IsNone(end) /\ end.val # <<>>
              THEN <<<<LitEnd>> \o end.val \o <<"'">>>>
              ELSE <<>>
    IN  Join(<<" and ">>, p1 \o p2 \o p3 \o p4 \o p5)

\* Bound: the category and state lists hold at most MaxEntries entries.
MaxEntries == 2

SeqsUpTo(S, n) == UNION {[1..k -> S] : k \in 0..n}

CategoryEntries == {<<>>, <<" ">>, <<"A">>, <<" ", "b", " ">>}

StateEntries == {<<" ", " ">>, <<"c", "a">>, <<"O", "R", " ">>}

\* date.isoformat(): YYYY-MM-DD, zero-padded
Digit(n) == Digits[n + 1]

isoformat(date) ==
    <<Digit(date[1] \div 1000), Digit((date[1] \div 100) % 10),
      Digit((date[1] \div 10) % 10), Digit(date[1] % 10), "-",
      Digit(date[2] \div 10), Digit(date[2] % 10), "-",
      Digit(date[3] \div 10), Digit(date[3] % 10)>>

StartDates == {<<2018, 11, 8>>}

EndDates == {<<2021, 1, 31>>}

StartArgs == {None, Some(<<>>)} \cup {Some(isoformat(d)) : d \in StartDates}

EndArgs == {None} \cup {Some(isoformat(d)) : d \in EndDates}

InitIdleFetch ==
    /\ srcN = 0
    /\ metaMode = "honest"
    /\ fixedCount = 0
    /\ shape = "meta_first"
    /\ drifted = FALSE
    /\ skip = 0
    /\ records = <<>>
    /\ total_count = None
    /\ last_url = None
    /\ requests = <<>>
    /\ statuses = <<>>
    /\ served = <<>>
    /\ progressLog = <<>>
    /\ outcome = "none"
    /\ errStatus = None
    /\ df = None
    /\ ret_count = 0
    /\ outputs = <<>>

InitFilter ==
    /\ pc = "call"
    /\ args \in [states : {None} \cup {Some(l) : l \in SeqsUpTo(StateEntries, MaxEntries)},
                 start : StartArgs,
                 end : EndArgs,
                 categories : SeqsUpTo(CategoryEntries, MaxEntries),
                 incident_contains : BOOLEAN]
    /\ result = <<>>
    /\ InitIdleFetch

CallBuildFilter ==
    /\ pc = "call"
    /\ result' = build_filter(args.states, args.start, args.end, args.categories,
                              args.incident_contains)
    /\ pc' = "returned"
    /\ UNCHANGED <<args, fetchVars>>

NextFilter == CallBuildFilter

SpecFilter == InitFilter /\ [][NextFilter]_vars

----------------------------------------------------------------------------
(* Properties of build_filter *)

\* The clauses of an expression: what stands between the " and " pieces.
ClausesOf(text) == Split(text, " and ")

ClauseKind(cl) ==
    CASE cl = <<LitContains>> \/ cl = <<LitExact>>      -> 1
      [] Len(cl) >= 2 /\ cl[1] = "(" /\ cl[2] = LitCategory -> 2
      [] Len(cl) >= 2 /\ cl[1] = "(" /\ cl[2] = LitState    -> 3
      [] Len(cl) >= 1 /\ cl[1] = LitStart                   -> 4
      [] Len(cl) >= 1 /\ cl[1] = LitEnd                     -> 5
      [] OTHER                                              -> 0

\* The terms of a parenthesised group: what stands between the " or " pieces.
TermsOf(cl) == Split(SubSeq(cl, 2, Len(cl) - 1), " or ")

\* A term is a field literal, a value that neither is empty nor starts or
\* ends with whitespace, and the closing quote.
WellFormedTerm(term, lit) ==
    /\ Len(term) >= 3
    /\ term[1] = lit
    /\ term[Len(term)] = "'"
    /\ term[2] \notin Whitespace
    /\ term[Len(term) - 1] \notin Whitespace
    /\ \A i \in 2..(Len(term) - 1) : term[i] # "'" /\ ~Occurs(LowerCase, term[i])

HasVisible(entry) == \E i \in 1..Len(entry) : entry[i] \notin Whitespace

Visible(entries) == SelectSeq(entries, HasVisible)

ClauseOfKind(cls, k) == SelectSeq(cls, LAMBDA cl : ClauseKind(cl) = k)

GroupOk(cls, k, lit, entries) ==
    LET found == ClauseOfKind(cls, k)
    IN  IF Visible(entries) = <<>>
        THEN found = <<>>
        ELSE /\ Len(found) = 1
             /\ found[1][1] = "(" /\ found[1][Len(found[1])] = ")"
             /\ Len(TermsOf(found[1])) = Len(Visible(entries))
             /\ \A i \in 1..Len(TermsOf(found[1])) :
                  WellFormedTerm(TermsOf(found[1])[i], lit)

DateOk(cls, k, lit, arg) ==
    LET found == ClauseOfKind(cls, k)
    IN  IF IsNone(arg) \/ arg.val = <<>>
        THEN found = <<>>
        ELSE found = <<<<lit>> \o arg.val \o <<"'">>>>

\* C6: the expression is the " and "-join of its clauses in the order
\* incident-type, category, state, start-date, end-date, each at most once;
\* the incident-type clause is always there and is the one the mode selects;
\* a category or state group has one well-formed term per entry that holds a
\* visible character and is absent when there is none, so no blank value and
\* no empty parenthesis group is ever written; exact mode with nothing else
\* set gives exactly the equality clause.
C6_FilterExpression ==
    (pc = "returned") =>
        LET cls == ClausesOf(result)
        IN  /\ cls[1] = IF args.incident_contains THEN <<LitContains>> ELSE <<LitExact>>
            /\ \A i \in 1..Len(cls) : ClauseKind(cls[i]) # 0
            /\ \A i, j \in 1..Len(cls) :
                 i < j => ClauseKind(cls[i]) < ClauseKind(cls[j])
            /\ \A i \in 1..(Len(result) - 1) :
                 ~(result[i] = "(" /\ result[i + 1] = ")")
            /\ GroupOk(cls, 2, LitCategory, args.categories)
            /\ GroupOk(cls, 3, LitState,
                       IF IsNone(args.states) THEN <<>> ELSE args.states.val)
            /\ DateOk(cls, 4, LitStart, args.start)
            /\ DateOk(cls, 5, LitEnd, args.end)
            /\ (/\ ~args.incident_contains
                /\ args.categories = <<>>
                /\ IsNone(args.states) \/ args.states.val = <<>>
                /\ IsNone(args.start)
                /\ IsNone(args.end)) => result = <<LitExact>>

C6_Witness ==
    /\ pc = "returned"
    /\ Len(args.categories) = 2
    /\ ~HasVisible(args.categories[1])
    /\ HasVisible(args.categories[2])
    /\ ~IsNone(args.states)
    /\ args.states.val # <<>>
    /\ Visible(args.states.val) = <<>>
    /\ ~IsNone(args.start) /\ args.start.val # <<>>
    /\ ~IsNone(args.end)
    /\ Len(ClausesOf(result)) = 4

----------------------------------------------------------------------------
(* The sidebar form and the first lines of the run block *)

ALL_CATEGORIES == <<<<"A">>, <<"B">>, <<"C">>, <<"D">>, <<"E">>, <<"F">>, <<"G">>>>

\* Bound: the multiselect holds at most MaxSelected categories.
MaxSelected == 1

\* Bound: searches run between two edits of the other widgets.
MaxRuns == 2

Range(seq) == {seq[i] : i \in 1..Len(seq)}

\* What st.multiselect can return: distinct options, in the order chosen.
Selections ==
    {sel \in SeqsUpTo(Range(ALL_CATEGORIES), MaxSelected) :
        \A i, j \in 1..Len(sel) : i # j => sel[i] # sel[j]}

StatesTexts == {<<>>, <<"c", "a">>, <<"c", "a", ",", " ", "o", "r", ",">>}

StripUpper(str) == Upper(Strip(str))

\* lines 143-146: states, s, e and flt
RunFilter(w) ==
    LET states == IF w.states_input # <<>>
                  THEN Some(Map(StripUpper, SelectSeq(Split(w.states_input, ","), NonBlank)))
                  ELSE None
        sd == IF IsNone(w.start_date) THEN None ELSE Some(isoformat(w.start_date.val))
        ed == IF IsNone(w.end_date) THEN None ELSE Some(isoformat(w.end_date.val))
    IN  build_filter(states, sd, ed, w.cats, w.incident_contains)

\* The widgets hold their declared defaults; result keeps, for the searches
\* run since the last edit of a widget other than the category multiselect,
\* the selection and the filter expression of each.
InitRun ==
    /\ pc = "form"
    /\ args = [states_input |-> <<>>, start_date |-> None, end_date |-> None,
               cats |-> <<>>, incident_contains |-> TRUE]
    /\ result = <<>>
    /\ InitIdleFetch

EditStates ==
    /\ pc = "form"
    /\ \E t \in StatesTexts : t # args.states_input /\ args' = [args EXCEPT !.states_input = t]
    /\ result' = <<>>
    /\ UNCHANGED <<pc, fetchVars>>

EditStartDate ==
    /\ pc = "form"
    /\ \E d \in {None} \cup {Some(x) : x \in StartDates} :
         d # args.start_date /\ args' = [args EXCEPT !.start_date = d]
    /\ result' = <<>>
    /\ UNCHANGED <<pc, fetchVars>>

EditEndDate ==
    /\ pc = "form"
    /\ \E d \in {None} \cup {Some(x) : x \in EndDates} :
         d # args.end_date /\ args' = [args EXCEPT !.end_date = d]
    /\ result' = <<>>
    /\ UNCHANGED <<pc, fetchVars>>

ToggleIncident ==
    /\ pc = "form"
    /\ args' = [args EXCEPT !.incident_contains = ~args.incident_contains]
    /\ result' = <<>>
    /\ UNCHANGED <<pc, fetchVars>>

SelectCategories ==
    /\ pc = "form"
    /\ \E sel \in Selections : sel # args.cats /\ args' = [args EXCEPT !.cats = sel]
    /\ UNCHANGED <<pc, result, fetchVars>>

\* The run button: flt is built and shown, and is the $filter of every request.
RunSearch ==
    /\ pc = "form"
    /\ Len(result) < MaxRuns
    /\ result' = Append(result, [cats |-> args.cats, flt |-> RunFilter(args)])
    /\ UNCHANGED <<pc, args, fetchVars>>

NextRun ==
    \/ EditStates
    \/ EditStartDate
    \/ EditEndDate
    \/ ToggleIncident
    \/ SelectCategories
    \/ RunSearch

SpecRun == InitRun /\ [][NextRun]_vars

\* C10: two searches that differ only in the damage-category selection send
\* the same filter expression.
C10_CategoriesNotWired ==
    \A i, j \in 1..Len(result) : result[i].flt = result[j].flt

----------------------------------------------------------------------------
(* is_water_utility *)

\* str(row.get(field) or "").lower(): a missing or empty field reads as ""
FieldText(value) == IF IsNone(value) THEN <<>> ELSE Lower(value.val)

\* Variant of ExcludeScope that searches the name and the title.
ExcludeScopeText(name, title) == name \o <<" ">> \o title

\* if any(x in name for x in exclude): the text the exclude keywords search
ExcludeScope(name, title) == name

\* text = f"{name} {title}": the text the include keywords search
IncludeScope(name, title) == name \o <<" ">> \o title

is_water_utility(row, include, exclude) ==
    LET name  == FieldText(row.applicantName)
        title == FieldText(row.projectTitle)
    IN  IF \E i \in 1..Len(exclude) : Contains(exclude[i], ExcludeScope(name, title))
        THEN FALSE
        ELSE \E i \in 1..Len(include) : Contains(include[i], IncludeScope(name, title))

\* Bound: applicant names and project titles hold at most MaxLen characters.
MaxLen == 2

\* Bound: the include and exclude lists hold at most MaxKeywords keywords.
MaxKeywords == 2

NameChars == {"W", "c"}

FieldValues == {None} \cup {Some(t) : t \in SeqsUpTo(NameChars, MaxLen)}

\* Keywords as line 158-159 leave them: lower-case, trimmed, not empty.
IncludePool == {<<"w">>, <<"c">>, <<"c", " ", "w">>}

ExcludePool == {<<"c">>, <<"w">>}

InitClassify ==
    /\ pc = "call"
    /\ args \in [row : [applicantName : FieldValues, projectTitle : FieldValues],
                 include : SeqsUpTo(IncludePool, MaxKeywords),
                 exclude : SeqsUpTo(ExcludePool, MaxKeywords)]
    /\ result = <<>>
    /\ InitIdleFetch

CallIsWaterUtility ==
    /\ pc = "call"
    /\ result' = is_water_utility(args.row, args.include, args.exclude)
    /\ pc' = "returned"
    /\ UNCHANGED <<args, fetchVars>>

NextClassify == CallIsWaterUtility

SpecClassify == InitClassify /\ [][NextClassify]_vars

\* x occurs in str at offset k, character by character.
OccursAt(x, str, k) ==
    /\ k + Len(x) <= Len(str)
    /\ \A i \in 1..Len(x) : str[k + i] = x[i]

IsSubstring(x, str) == \E k \in 0..Len(str) : OccursAt(x, str, k)

LoweredName == IF IsNone(args.row.applicantName) THEN <<>> ELSE Lower(args.row.applicantName.val)

LoweredTitle == IF IsNone(args.row.projectTitle) THEN <<>> ELSE Lower(args.row.projectTitle.val)

ExcludeHitsName == \E x \in Range(args.exclude) : IsSubstring(x, LoweredName)

ExcludeHitsTitleOnly ==
    /\ ~ExcludeHitsName
    /\ \E x \in Range(args.exclude) : IsSubstring(x, LoweredTitle)

IncludeHitsText ==
    \E x \in Range(args.include) : IsSubstring(x, LoweredName \o <<" ">> \o LoweredTitle)

\* C7: the row is accepted if and only if no exclude keyword is a substring
\* of the lower-cased name and some include keyword is a substring of the
\* lower-cased "name title"; so an exclude hit on the name rejects whatever
\* the include keywords match, an exclude keyword found only in the title
\* rejects nothing, and an empty include list rejects every row.
C7_Classifier ==
    (pc = "returned") =>
        /\ result = (~ExcludeHitsName /\ IncludeHitsText)
        /\ (ExcludeHitsName /\ IncludeHitsText) => result = FALSE
        /\ (ExcludeHitsTitleOnly /\ IncludeHitsText) => result = TRUE
        /\ (args.include = <<>>) => result = FALSE

C7_Witness ==
    /\ pc = "returned"
    /\ ExcludeHitsTitleOnly
    /\ IncludeHitsText
    /\ result = TRUE
    /\ ~IsNone(args.row.applicantName)
    /\ \E i \in 1..Len(args.row.applicantName.val) :
         Occurs(UpperCase, args.row.applicantName.val[i])

----------------------------------------------------------------------------
(* summarize *)

Num(n) == [t |-> "num", v |-> n]

Text(str) == [t |-> "str", v |-> str]

AllDigits(str) == str # <<>> /\ \A i \in 1..Len(str) : Occurs(Digits, str[i])

RECURSIVE ParseInt(_)
ParseInt(str) ==
    IF str = <<>> THEN 0
    ELSE 10 * ParseInt(SubSeq(str, 1, Len(str) - 1)) + (IndexOf(Digits, str[Len(str)]) - 1)

\* pd.to_numeric(..., errors="coerce"): NaN (None) for what does not parse
ToNumeric(value) ==
    IF IsNone(value) THEN None
    ELSE IF value.val.t = "num" THEN Some(value.val.v)
    ELSE IF AllDigits(value.val.v) THEN Some(ParseInt(value.val.v))
    ELSE None

\* .fillna(0.0)
FillNa(x) == IF IsNone(x) THEN 0 ELSE x.val

\* line 107 for one cell
Amount(value) == FillNa(ToNumeric(value))

IsIsoDate(str) ==
    /\ Len(str) = 10
    /\ str[5] = "-" /\ str[8] = "-"
    /\ \A i \in {1, 2, 3, 4, 6, 7, 9, 10} : Occurs(Digits, str[i])
    /\ ParseInt(SubSeq(str, 6, 7)) \in 1..12
    /\ ParseInt(SubSeq(str, 9, 10)) \in 1..31

\* pd.to_datetime(..., errors="coerce"): NaT (None) for what does not parse
ToDatetime(value) ==
    IF IsNone(value) THEN None
    ELSE IF IsIsoDate(value.val)
    THEN Some(<<ParseInt(SubSeq(value.val, 1, 4)), ParseInt(SubSeq(value.val, 6, 7)),
                ParseInt(SubSeq(value.val, 9, 10))>>)
    ELSE None

DateLeq(a, b) ==
    \/ a[1] < b[1]
    \/ a[1] = b[1] /\ a[2] < b[2]
    \/ a[1] = b[1] /\ a[2] = b[2] /\ a[3] <= b[3]

\* .dt.date.astype(str)
DateStr(d) == IF IsNone(d) THEN <<"N", "a", "T">> ELSE isoformat(d.val)

\* Strings compare by code point, a proper prefix first.
RECURSIVE LexLess(_, _)
LexLess(a, b) ==
    IF b = <<>> THEN FALSE
    ELSE IF a = <<>> THEN TRUE
    ELSE IF Head(a) # Head(b) THEN Ord(Head(a)) < Ord(Head(b))
    ELSE LexLess(Tail(a), Tail(b))

\* Order of one key column: missing values come last.
OptLess(a, b) ==
    IF IsNone(a) THEN FALSE
    ELSE IF IsNone(b) THEN TRUE
    ELSE LexLess(a.val, b.val)

KeyOf(row) == <<row.stateAbbreviation, row.applicantId, row.applicantName>>

KeyLess(k1, k2) ==
    \/ OptLess(k1[1], k2[1])
    \/ k1[1] = k2[1] /\ OptLess(k1[2], k2[2])
    \/ k1[1] = k2[1] /\ k1[2] = k2[2] /\ OptLess(k1[3], k2[3])

\* The distinct keys of the rows, in the order first met.
RECURSIVE KeysAsFound(_)
KeysAsFound(rows) ==
    IF rows = <<>> THEN <<>>
    ELSE LET rest == KeysAsFound(SubSeq(rows, 1, Len(rows) - 1))
             k    == KeyOf(rows[Len(rows)])
         IN  IF k \in Range(rest) THEN rest ELSE Append(rest, k)

\* Insert x after every element that is not strictly after it (stable).
RECURSIVE InsertBy(_, _, _)
InsertBy(Before(_, _), x, sorted) ==
    IF sorted = <<>> THEN <<x>>
    ELSE IF Before(x, Head(sorted)) THEN <<x>> \o sorted
    ELSE <<Head(sorted)>> \o InsertBy(Before, x, Tail(sorted))

RECURSIVE StableSort(_, _)
StableSort(Before(_, _), xs) ==
    IF xs = <<>> THEN <<>>
    ELSE InsertBy(Before, xs[Len(xs)], StableSort(Before, SubSeq(xs, 1, Len(xs) - 1)))

\* Variant of GroupKeys with sort=False: groups in the order first met.
GroupKeysUnsorted(rows) == KeysAsFound(rows)

\* groupby(..., dropna=False) with its default sort=True: groups in key order
GroupKeys(rows) == StableSort(KeyLess, KeysAsFound(rows))

\* ("applicantId", "count"): the cells of the column that are not null
CountNonNull(rows) == Len(SelectSeq(rows, LAMBDA r : ~IsNone(r.applicantId)))

RECURSIVE SumAmounts(_)
SumAmounts(rows) ==
    IF rows = <<>> THEN 0
    ELSE Amount(rows[1].federalShareObligated) + SumAmounts(Tail(rows))

ParsedDates(rows) ==
    LET parsed == [i \in 1..Len(rows) |-> ToDatetime(rows[i].dateObligated)]
    IN  {parsed[i].val : i \in {j \in 1..Len(rows) : ~IsNone(parsed[j])}}

\* min and max skip NaT and give NaT when nothing is left
MinDate(rows) ==
    LET ds == ParsedDates(rows)
    IN  IF ds = {} THEN None
        ELSE Some(CHOOSE d \in ds : \A e \in ds : DateLeq(d, e))

MaxDate(rows) ==
    LET ds == ParsedDates(rows)
    IN  IF ds = {} THEN None
        ELSE Some(CHOOSE d \in ds : \A e \in ds : DateLeq(e, d))

Aggregate(key, sdf) ==
    LET members == SelectSeq(sdf, LAMBDA r : KeyOf(r) = key)
    IN  [state |-> key[1], applicantId |-> key[2], applicantName |-> key[3],
         projectCount |-> CountNonNull(members),
         totalFederalShareObligated |-> SumAmounts(members),
         firstDateObligated |-> DateStr(MinDate(members)),
         lastDateObligated |-> DateStr(MaxDate(members))]

\* sort_values(["state","totalFederalShareObligated"], ascending=[True, False]):
\* a stable sort, missing states last
SortBefore(g, h) ==
    \/ OptLess(g.state, h.state)
    \/ g.state = h.state /\ g.totalFederalShareObligated > h.totalFederalShareObligated

Matched(df_rows, include, exclude) ==
    SelectSeq(df_rows, LAMBDA r : is_water_utility(r, include, exclude))

summarize(df_rows, include, exclude) ==
    IF df_rows = <<>> THEN <<>>
    ELSE LET sdf == Matched(df_rows, include, exclude)
             grp == Map(LAMBDA k : Aggregate(k, sdf), GroupKeys(sdf))
         IN  StableSort(SortBefore, grp)

\* Bound: the frame handed to summarize holds at most MaxRows rows.
MaxRows == 3

CA == Some(<<"C", "A">>)

OR == Some(<<"O", "R">>)

RowKeys ==
    {[stateAbbreviation |-> CA, applicantId |-> Some(<<"1">>), applicantName |-> Some(<<"W">>)],
     [stateAbbreviation |-> CA, applicantId |-> Some(<<"2">>), applicantName |-> Some(<<"W">>)],
     [stateAbbreviation |-> OR, applicantId |-> None, applicantName |-> Some(<<"W">>)],
     [stateAbbreviation |-> CA, applicantId |-> Some(<<"1">>), applicantName |-> Some(<<"c">>)]}

RowMeasures ==
    {[federalShareObligated |-> Some(Num(100)), dateObligated |-> Some(isoformat(<<2018, 11, 8>>))],
     [federalShareObligated |-> Some(Text(<<"5", "0", "0">>)), dateObligated |-> Some(isoformat(<<2021, 1, 31>>))],
     [federalShareObligated |-> Some(Text(<<"n", "-", "a">>)), dateObligated |-> None],
     [federalShareObligated |-> None, dateObligated |-> Some(<<"n", "-", "a">>)]}

Rows ==
    {[stateAbbreviation |-> k.stateAbbreviation, applicantId |-> k.applicantId,
      applicantName |-> k.applicantName, projectTitle |-> None,
      federalShareObligated |-> m.federalShareObligated,
      dateObligated |-> m.dateObligated] : k \in RowKeys, m \in RowMeasures}

InitSummarize ==
    /\ pc = "call"
    /\ args \in [df : SeqsUpTo(Rows, MaxRows),
                 include : {<<<<"w">>>>},
                 exclude : {<<>>}]
    /\ result = <<>>
    /\ InitIdleFetch

CallSummarize ==
    /\ pc = "call"
    /\ result' = summarize(args.df, args.include, args.exclude)
    /\ pc' = "returned"
    /\ UNCHANGED <<args, fetchVars>>

NextSummarize == CallSummarize

SpecSummarize == InitSummarize /\ [][NextSummarize]_vars

----------------------------------------------------------------------------
(* Properties of summarize *)

MatchedRows == Matched(args.df, args.include, args.exclude)

\* The matched input rows that share the key of output row g.
MembersOf(g) ==
    SelectSeq(MatchedRows,
              LAMBDA r : KeyOf(r) = <<g.state, g.applicantId, g.applicantName>>)

\* The federal share of a row, a missing or unparsable amount counted as zero.
ShareOrZero(r) ==
    LET a == r.federalShareObligated
    IN  IF IsNone(a) THEN 0
        ELSE IF a.val.t = "num" THEN a.val.v
        ELSE IF AllDigits(a.val.v) THEN ParseInt(a.val.v)
        ELSE 0

RECURSIVE SumShares(_)
SumShares(rows) ==
    IF rows = <<>> THEN 0 ELSE ShareOrZero(rows[1]) + SumShares(Tail(rows))

\* C8: every output row counts exactly the matched input rows of its key (so
\* at least one) and sums their federal shares with missing or unparsable
\* amounts as zero, and every matched row belongs to an output row.
C8_CountsAndSums ==
    (pc = "returned") =>
        /\ \A i \in 1..Len(result) :
             /\ result[i].projectCount = Len(MembersOf(result[i]))
             /\ result[i].projectCount >= 1
             /\ result[i].totalFederalShareObligated = SumShares(MembersOf(result[i]))
        /\ \A j \in 1..Len(MatchedRows) :
             \E i \in 1..Len(result) :
                KeyOf(MatchedRows[j]) =
                    <<result[i].state, result[i].applicantId, result[i].applicantName>>

\* The position in the matched input at which the key of g is first met.
FirstMet(g) ==
    CHOOSE j \in 1..Len(MatchedRows) :
        /\ KeyOf(MatchedRows[j]) = <<g.state, g.applicantId, g.applicantName>>
        /\ \A k \in 1..(j - 1) : KeyOf(MatchedRows[k]) # KeyOf(MatchedRows[j])

Tied(g, h) ==
    g.state = h.state /\ g.totalFederalShareObligated = h.totalFederalShareObligated

StateAscTotalDesc ==
    \A i, j \in 1..Len(result) :
        i < j =>
            /\ ~OptLess(result[j].state, result[i].state)
            /\ (result[i].state = result[j].state) =>
                 result[i].totalFederalShareObligated >= result[j].totalFederalShareObligated

\* C9 as stated: rows are ordered by state ascending, then total descending,
\* and tied groups keep the order in which their keys were first met.
C9_TiesInDiscoveryOrder ==
    (pc = "returned") =>
        /\ StateAscTotalDesc
        /\ \A i, j \in 1..Len(result) :
             (i < j /\ Tied(result[i], result[j])) =>
                 FirstMet(result[i]) < FirstMet(result[j])

KeyPresent(g) == ~IsNone(g.applicantId) /\ ~IsNone(g.applicantName)

\* C9 as amended: rows are ordered by state ascending, then total descending,
\* and tied groups whose identifier and name are present stand in ascending
\* order of (applicant identifier, applicant name), whatever the order in
\* which their keys were met.
C9_TiesInKeyOrder ==
    (pc = "returned") =>
        /\ StateAscTotalDesc
        /\ \A i, j \in 1..Len(result) :
             (/\ i < j
              /\ Tied(result[i], result[j])
              /\ KeyPresent(result[i])
              /\ KeyPresent(result[j])) =>
                 \/ LexLess(result[i].applicantId.val, result[j].applicantId.val)
                 \/ /\ result[i].applicantId = result[j].applicantId
                    /\ LexLess(result[i].applicantName.val, result[j].applicantName.val)

C9_Witness ==
    /\ pc = "returned"
    /\ Len(result) >= 2
    /\ \E i \in 1..(Len(result) - 1) :
         /\ Tied(result[i], result[i + 1])
         /\ FirstMet(result[i + 1]) < FirstMet(result[i])

====
